---- MODULE Spec2Model ----
(***************************************************************************)
(* A state-machine model of the CanvasEditor component                     *)
(* (src/frontend/src/pages/CanvasEditor.tsx): the two layers, their        *)
(* editable pixel buffers, the bounded undo/redo history, the pointer      *)
(* handlers of the overlay and edit tools and the layer-order swap.        *)
(*                                                                         *)
(* Conventions.                                                            *)
(*  - A canvas (pixel buffer) is the set of its opaque cells; a cell is a  *)
(*    CellSize x CellSize block of pixels and is erased when its centre    *)
(*    lies in the erased shape.  Lengths are in pixels.                    *)
(*  - opacity and scale are kept in the sliders' unit (percent): the code  *)
(*    stores value / 100.                                                  *)
(*  - null is the empty tuple <<>>, a point is <<x, y>>.                   *)
(*  - A pointer event carries its canvas coordinates (the bounding         *)
(*    rectangle is taken to be the canvas itself, so clientX = canvasX).   *)
(*  - Every handler is one atomic action: React commits the state between  *)
(*    two events.  Handlers can be invoked in any order.                   *)
(***************************************************************************)
EXTENDS Integers, Sequences, FiniteSets, TLC

VARIABLES
    layers,            \* [1..2 -> [visible, active, transform]]
    layerOrder,        \* <<bottom, top>>
    visualLayerOrder,  \* order of the layer panel
    isSwapping,
    swapTimers,        \* pending 300 ms timeouts of swapLayerOrder
    loading,
    images,            \* the set of layer ids whose source image is loaded
    editableImages,    \* [layer id -> canvas], defined for loaded layers only
    undoHistory,       \* sequence of [layerId, imageData]
    redoHistory,
    currentTool,
    editSubTool,
    brushSize,
    isErasing,
    boxStart,
    boxEnd,
    boxPosRef,         \* [start, end]
    cursorPos,
    selectedLines,
    detectedLines,
    message,           \* [type, text] or null
    isDragging,
    dragStart,
    pendingTransformRef,
    animationFrameRef, \* null, or <<layer id captured by the frame callback>>
    lastOp,            \* history variable: the handler that ran last
    orderTrail,        \* history variable: layerOrder before each of the last two swaps
    law,               \* history variable: the run of edits, undos and redos under way
    clickTrail,        \* history: the last click of the line tool
    render,            \* the render requests and passes
    gesture,           \* history variable: the pointer gesture under way
    budget             \* <<n>>: n more handler calls are explored; <<>>: no limit

layerVars   == <<layers, layerOrder, visualLayerOrder, isSwapping, swapTimers>>
imageVars   == <<loading, images, editableImages>>
historyVars == <<undoHistory, redoHistory>>
toolVars    == <<currentTool, editSubTool, brushSize>>
eraseVars   == <<isErasing, boxStart, boxEnd, boxPosRef, cursorPos>>
lineVars    == <<selectedLines, detectedLines>>
dragVars    == <<isDragging, dragStart, pendingTransformRef, animationFrameRef>>

vars == <<layerVars, imageVars, historyVars, toolVars, eraseVars, lineVars,
          dragVars, message, lastOp, orderTrail, law, clickTrail, render, gesture,
          budget>>

----------------------------------------------------------------------------
(* Program constants *)

MAX_UNDO_HISTORY == 10
MOVEMENT_MULTIPLIER == 4
DefaultBrushSize == 20
LineThreshold == 15
EraseLineWidth == 5

(* Bounds of the model *)

\* side of a cell of the pixel grid, in pixels
CellSize == 40
\* handler calls explored from the initial state under Spec
MaxSteps == 5
\* handler calls explored from the initial state under SpecEdit
MaxEditSteps == 7

\* handler calls explored from the initial state under SpecBox
MaxBoxSteps == 7
\* handler calls explored from the initial state under SpecLine
MaxLineSteps == 8
MaxTransformSteps == 5
\* handler calls explored from the initial state under SpecDetect
MaxDetectSteps == 7
\* handler calls explored from the initial state under SpecRender
MaxRenderSteps == 6

LayerIds == {1, 2}
Null == <<>>

\* the cells of an image: GridW x GridH cells
GridCols == {0, 1, 2}
GridRows == {0}
Cells == GridCols \X GridRows

Msg(type, text) == [type |-> type, text |-> text]

IdentityTransform == [x |-> 0, y |-> 0, rotation |-> 0, opacity |-> 100, scale |-> 100]

----------------------------------------------------------------------------
(* Derived state *)

activeLayerId == IF layers[1].active THEN 1 ELSE 2

HasCanvas(l) == l \in DOMAIN editableImages

\* twice the coordinate of the centre of cell index k
Centre2(k) == (2 * k + 1) * CellSize

\* display -> image conversion used by the edit tools: (canvas - offset) / scale
ToImage(c, offset, scale) == ((c - offset) * 100) \div scale

ImagePoint(p, t) == <<ToImage(p[1], t.x, t.scale), ToImage(p[2], t.y, t.scale)>>

----------------------------------------------------------------------------
(* Canvas operations *)

\* an erase of the square that encloses the circle
EraseSquare(canvas, c, r) ==
    {cell \in canvas :
        \/ (Centre2(cell[1]) - 2 * c[1]) * (Centre2(cell[1]) - 2 * c[1]) > 4 * r * r
        \/ (Centre2(cell[2]) - 2 * c[2]) * (Centre2(cell[2]) - 2 * c[2]) > 4 * r * r}

\* ctx.arc(x, y, r) + fill under destination-out
EraseCircle(canvas, c, r) ==
    {cell \in canvas :
        (Centre2(cell[1]) - 2 * c[1]) * (Centre2(cell[1]) - 2 * c[1])
      + (Centre2(cell[2]) - 2 * c[2]) * (Centre2(cell[2]) - 2 * c[2])
      > 4 * r * r}

Min(a, b) == IF a < b THEN a ELSE b
Max(a, b) == IF a > b THEN a ELSE b
Abs(a) == IF a < 0 THEN -a ELSE a

\* a rectangle that takes in the pixels on its far edges
EraseRectInclusive(canvas, x, y, width, height) ==
    {cell \in canvas :
        ~ (  2 * x <= Centre2(cell[1]) /\ Centre2(cell[1]) <= 2 * (x + width)
          /\ 2 * y <= Centre2(cell[2]) /\ Centre2(cell[2]) <= 2 * (y + height))}

\* ctx.fillRect(x, y, width, height) under destination-out
EraseRect(canvas, x, y, width, height) ==
    {cell \in canvas :
        ~ (  2 * x <= Centre2(cell[1]) /\ Centre2(cell[1]) < 2 * (x + width)
          /\ 2 * y <= Centre2(cell[2]) /\ Centre2(cell[2]) < 2 * (y + height))}

\* a stroke four times as wide
EraseStrokeWide(canvas, line, w) ==
    {cell \in canvas :
        ~ (  2 * Min(line.x1, line.x2) <= Centre2(cell[1])
          /\ Centre2(cell[1]) <= 2 * Max(line.x1, line.x2)
          /\ 2 * Abs(Centre2(cell[2]) - 2 * line.y1) <= 8 * w)}

\* a stroke of width w from (x1, y1) to (x2, y2), horizontal segments only
EraseStroke(canvas, line, w) ==
    {cell \in canvas :
        ~ (  2 * Min(line.x1, line.x2) <= Centre2(cell[1])
          /\ Centre2(cell[1]) <= 2 * Max(line.x1, line.x2)
          /\ 2 * Abs(Centre2(cell[2]) - 2 * line.y1) <= 2 * w)}

----------------------------------------------------------------------------
(* Undo history *)

\* newHistory.slice(-MAX_UNDO_HISTORY)
SliceLast(h, n) == IF Len(h) <= n THEN h ELSE SubSeq(h, Len(h) - n + 1, Len(h))

\* a push that keeps the oldest MAX_UNDO_HISTORY entries instead
PushKeepOldest(h, entry) ==
    SubSeq(Append(h, entry), 1, Min(Len(h) + 1, MAX_UNDO_HISTORY))

\* [...prev, entry].slice(-MAX_UNDO_HISTORY)
PushBounded(h, entry) == SliceLast(Append(h, entry), MAX_UNDO_HISTORY)

\* a removal of the oldest entry
DropOldest(h) == IF h = <<>> THEN h ELSE Tail(h)

\* prev.slice(0, -1)
DropLast(h) == IF h = <<>> THEN h ELSE SubSeq(h, 1, Len(h) - 1)

Entry(l, data) == [layerId |-> l, imageData |-> data]

\* undo and redo as functions of the canvases and the two stacks
HistoryState == [imgs |-> editableImages, undo |-> undoHistory, redo |-> redoHistory]

\* a restore into whichever layer is active
ActiveTarget(entry) == activeLayerId

\* the canvas a popped entry is restored into
RestoreTarget(entry) == entry.layerId

\* a save of the popped entry itself
SavedPopped(imgs, entry) == entry

\* the entry saved on the opposite stack before the restore
SavedCurrent(imgs, entry) == Entry(entry.layerId, imgs[entry.layerId])

CanUndo(h) == h.undo # <<>> /\ h.undo[Len(h.undo)].layerId \in DOMAIN h.imgs

UndoOf(h) ==
    IF ~ CanUndo(h) THEN h
    ELSE LET lastState == h.undo[Len(h.undo)]
         IN  [imgs |-> [h.imgs EXCEPT ![RestoreTarget(lastState)] = lastState.imageData],
              undo |-> DropLast(h.undo),
              redo |-> PushBounded(h.redo, SavedCurrent(h.imgs, lastState))]

CanRedo(h) == h.redo # <<>> /\ h.redo[Len(h.redo)].layerId \in DOMAIN h.imgs

RedoOf(h) ==
    IF ~ CanRedo(h) THEN h
    ELSE LET nextState == h.redo[Len(h.redo)]
         IN  [imgs |-> [h.imgs EXCEPT ![RestoreTarget(nextState)] = nextState.imageData],
              undo |-> PushBounded(h.undo, SavedCurrent(h.imgs, nextState)),
              redo |-> DropLast(h.redo)]

----------------------------------------------------------------------------
InitState ==
    /\ layers = [l \in LayerIds |->
                    [visible |-> TRUE, active |-> (l = 1), transform |-> IdentityTransform]]
    /\ layerOrder = <<1, 2>>
    /\ visualLayerOrder = <<1, 2>>
    /\ isSwapping = FALSE
    /\ swapTimers = 0
    /\ loading = TRUE
    /\ images = {}
    /\ editableImages = <<>>
    /\ undoHistory = <<>>
    /\ redoHistory = <<>>
    /\ currentTool = "overlay"
    /\ editSubTool = "brush"
    /\ brushSize = DefaultBrushSize
    /\ isErasing = FALSE
    /\ boxStart = Null
    /\ boxEnd = Null
    /\ boxPosRef = [start |-> Null, end |-> Null]
    /\ cursorPos = Null
    /\ selectedLines = {}
    /\ detectedLines = <<>>
    /\ message = Msg("info", "Loading images...")
    /\ isDragging = FALSE
    /\ dragStart = Null
    /\ pendingTransformRef = Null
    /\ animationFrameRef = Null
    /\ lastOp = "init"
    /\ orderTrail = <<>>

NoLaw == [phase |-> "off", base |-> <<>>, post |-> <<>>]
IdleLaw == [phase |-> "idle", base |-> <<>>, post |-> <<>>]

\* clickTrail: mode "off" (not followed), "none" (no click yet) or "click";
\* p is the point of the last click and prev that of the click before it
\* on is <<l>> when the segments were last detected on layer l, <<0>> before
\* any detection, and Null when the detections are not followed
NoClick(mode) ==
    [mode |-> mode, p |-> Null, prev |-> Null, before |-> {}, after |-> {},
     lines |-> <<>>, t |-> Null, on |-> Null]

\* render: mode "off" (rendering is not followed) or "on", and then the
\* state of the render effect as it is after mounting
RenderOff == [mode |-> "off"]
RenderOn ==
    [mode |-> "on", ref |-> "null", queue |-> 0, frames |-> 0, sync |-> FALSE,
     since |-> 0, ops |-> <<>>, drew |-> FALSE, recolors |-> [l \in LayerIds |-> 0]]

\* gesture: mode "off" (the gestures are not followed) or "on", and then
\* phase "none" (no pointer-down yet), "down" (since the last pointer-down no
\* pointer-up or pointer-leave has come) or "released"; of the last
\* pointer-down, tool is the tool it found, from its point, l0 the layer
\* then active, t0 that layer's <<x, y>> and imgs0 the canvases; last is the
\* point of the last pointer-move that dragged the layer since
GestureOff == [mode |-> "off"]
GestureOn ==
    [mode |-> "on", phase |-> "none", tool |-> "none", from |-> Null, last |-> Null,
     l0 |-> 0, t0 |-> Null, imgs0 |-> <<>>]

Init ==
    /\ InitState
    /\ budget = <<MaxSteps>>
    /\ law = NoLaw
    /\ clickTrail = NoClick("off")
    /\ render = RenderOff
    /\ gesture = GestureOff

\* the same initial state, explored without a limit on the handler calls, with
\* the run of edits, undos and redos followed from the image load on
InitHist ==
    /\ InitState
    /\ budget = <<>>
    /\ law = IdleLaw
    /\ clickTrail = NoClick("off")
    /\ render = RenderOff
    /\ gesture = GestureOff

\* the same initial state, explored for MaxEditSteps handler calls, the run
\* followed likewise
InitEdit ==
    /\ InitState
    /\ budget = <<MaxEditSteps>>
    /\ law = IdleLaw
    /\ clickTrail = NoClick("off")
    /\ render = RenderOff
    /\ gesture = GestureOff

\* the same initial state, explored for MaxBoxSteps handler calls
InitBox ==
    /\ InitState
    /\ budget = <<MaxBoxSteps>>
    /\ law = NoLaw
    /\ clickTrail = NoClick("off")
    /\ render = RenderOff
    /\ gesture = GestureOff

\* the same initial state, explored for MaxLineSteps handler calls, the clicks
\* of the line tool followed
InitLine ==
    /\ InitState
    /\ budget = <<MaxLineSteps>>
    /\ law = NoLaw
    /\ clickTrail = NoClick("none")
    /\ render = RenderOff
    /\ gesture = GestureOff

----------------------------------------------------------------------------
(* History variables.  Every handler ends with Observe, which reads the    *)
(* step it has just made.                                                  *)

Mutated ==
    \/ editableImages' # editableImages
    \/ undoHistory' # undoHistory
    \/ redoHistory' # redoHistory

\* law follows one run of the shape: edits E1..En from the empty history
\* (n <= MAX_UNDO_HISTORY, so no entry is evicted), then undos only, then redos
\* only.  base holds the canvases before E1, post those after En; phase "off"
\* marks a run of any other shape.
LawAfter ==
    CASE law.phase = "idle" ->
            IF lastOp' = "loadImages"
            THEN [phase |-> IF isErasing THEN "off" ELSE "edits",
                  base |-> editableImages', post |-> <<>>]
            ELSE law
      [] law.phase = "edits" ->
            IF lastOp' = "undo" /\ CanUndo(HistoryState)
            THEN [law EXCEPT !.phase = "undos", !.post = editableImages]
            ELSE IF \/ /\ Len(undoHistory) = MAX_UNDO_HISTORY
                       /\ undoHistory' # undoHistory
                       /\ lastOp' \notin {"undo", "redo"}
                    \/ lastOp' = "setActiveLayer" /\ isErasing /\ layers' # layers
                 THEN [law EXCEPT !.phase = "off"]
                 ELSE law
      [] law.phase = "undos" ->
            IF lastOp' = "undo" THEN law
            ELSE IF lastOp' = "redo" /\ CanRedo(HistoryState) /\ undoHistory = <<>>
                 THEN [law EXCEPT !.phase = "redos"]
                 ELSE IF Mutated THEN [law EXCEPT !.phase = "off"] ELSE law
      [] law.phase = "redos" ->
            IF lastOp' = "redo" THEN law
            ELSE IF Mutated THEN [law EXCEPT !.phase = "off"] ELSE law
      [] OTHER -> law

----------------------------------------------------------------------------
(* Rendering.  renderCanvas is called by some handlers directly and by the *)
(* animation-frame callback that the render effect requests whenever one   *)
(* of its dependencies has been set.  render follows both: ref is           *)
(* renderRequestRef ("null", "live": the handle of an outstanding callback, *)
(* "stale": that of a cancelled one), queue the number of outstanding       *)
(* render callbacks, frames that of outstanding transform callbacks, sync   *)
(* whether the last handler called renderCanvas itself, since the number of *)
(* passes drawn since the last animation frame began (counted up to 3), ops *)
(* the draw operations of the pass of the last step, drew whether any pass  *)
(* has drawn, recolors the recolouring passes run per layer.                *)

DrawOp(op, arg) == [op |-> op, arg |-> arg]

\* boxPosRef.current.start || boxStart, boxPosRef.current.end || boxEnd
EffectiveBox(ref, bStart, bEnd) ==
    [start |-> IF ref.start # Null THEN ref.start ELSE bStart,
     end   |-> IF ref.end # Null THEN ref.end ELSE bEnd]

\* a pass that draws the tool overlays before the layers
RenderCanvasOverlaysFirst(imgs, ls, order, tool, sub, box, cur, lines) ==
    IF imgs # LayerIds THEN <<>>
    ELSE LET Visible(l) == ls[l].visible
             shown == SelectSeq(order, Visible)
         IN  <<DrawOp("clear", 0)>>
             \o (IF tool = "edit" /\ sub = "brush" /\ cur # Null
                 THEN <<DrawOp("ring", 0)>> ELSE <<>>)
             \o [i \in 1..Len(shown) |-> DrawOp("layer", shown[i])]

\* the draw operations of one call of renderCanvas, in order; none when an
\* image is missing
RenderCanvas(imgs, ls, order, tool, sub, box, cur, lines) ==
    IF imgs # LayerIds THEN <<>>
    ELSE LET Visible(l) == ls[l].visible
             shown == SelectSeq(order, Visible)
         IN  <<DrawOp("clear", 0)>>
             \o [i \in 1..Len(shown) |-> DrawOp("layer", shown[i])]
             \o (IF tool = "edit" /\ sub = "box" /\ box.start # Null /\ box.end # Null
                 THEN <<DrawOp("box", 0)>> ELSE <<>>)
             \o (IF tool = "edit" /\ sub = "brush" /\ cur # Null
                 THEN <<DrawOp("ring", 0)>> ELSE <<>>)
             \o (IF tool = "edit" /\ sub = "line" /\ lines # <<>>
                 THEN <<DrawOp("lines", 0)>> ELSE <<>>)

BoxCommitted ==
    currentTool = "edit" /\ editSubTool = "box" /\ boxStart # Null /\ boxEnd # Null

\* the branch of handleMouseMove that moves the layer
DragMove == isDragging /\ dragStart # Null /\ currentTool = "overlay"

\* if (!animationFrameRef.current)
FrameRequested(ref) == ref = Null

\* the handler of this step calls renderCanvas itself
SyncRender ==
    CASE lastOp' = "mouseDown" ->
            /\ currentTool = "edit"
            /\ \/ editSubTool = "brush" /\ HasCanvas(activeLayerId)
               \/ editSubTool = "line" /\ selectedLines' # selectedLines
      [] lastOp' = "mouseMove" ->
            /\ currentTool = "edit"
            /\ \/ editSubTool = "brush" /\ (~ isErasing \/ HasCanvas(activeLayerId))
               \/ editSubTool = "box" /\ boxStart # Null
      [] lastOp' \in {"mouseUp", "mouseLeave"} -> BoxCommitted /\ HasCanvas(activeLayerId)
      [] lastOp' = "eraseSelectedLines" -> selectedLines # {} /\ HasCanvas(activeLayerId)
      [] lastOp' = "undo" -> CanUndo(HistoryState)
      [] lastOp' = "redo" -> CanRedo(HistoryState)
      [] OTHER -> FALSE

\* the handler of this step sets a dependency of the render effect: images or
\* one of the state values renderCanvas is built from
DepsSet ==
    CASE lastOp' \in {"loadImages", "setActiveLayer", "toggleLayerVisibility",
                      "updateTransform", "resetTransform", "swapLayerOrder",
                      "clearSelection"} -> TRUE
      [] lastOp' = "transformFrame" -> pendingTransformRef # Null
      [] lastOp' = "mouseDown" ->
            /\ currentTool = "edit"
            /\ \/ editSubTool = "box"
               \/ editSubTool = "line" /\ selectedLines' # selectedLines
      [] lastOp' = "mouseMove" ->
            /\ currentTool = "edit"
            /\ \/ editSubTool = "brush"
               \/ editSubTool = "box" /\ boxStart # Null
      [] lastOp' = "mouseUp" -> BoxCommitted
      [] lastOp' = "mouseLeave" -> BoxCommitted \/ cursorPos # Null
      [] lastOp' = "detectLines" -> HasCanvas(activeLayerId)
      [] lastOp' = "eraseSelectedLines" -> selectedLines # {} /\ HasCanvas(activeLayerId)
      [] lastOp' \in {"setCurrentTool", "setEditSubTool", "setBrushSize"} ->
            <<currentTool, editSubTool, brushSize>>' # <<currentTool, editSubTool, brushSize>>
      [] OTHER -> FALSE

\* recolouring passes over one layer during a handler that drew `passes` times,
\* were renderCanvas to recolour
RecolorsPerRender(op, passes) == (IF op = "loadImages" THEN 1 ELSE 0) + passes

\* recolouring passes over one layer during a handler that drew `passes`
\* times: processImagesForOverlay is called by loadImages only
Recolors(op, passes) == IF op = "loadImages" THEN 1 ELSE 0

RenderAfter ==
    IF render.mode = "off" THEN render
    ELSE
    LET isFrame == lastOp' = "renderFrame"
        sync == SyncRender
        \* a handler's renderCanvas is that of the last render: it reads the
        \* state before the handler's updates, and the refs as they are
        syncOps == IF sync
                   THEN RenderCanvas(images, layers, layerOrder, currentTool, editSubTool,
                            EffectiveBox(IF lastOp' = "mouseMove" THEN boxPosRef' ELSE boxPosRef,
                                         boxStart, boxEnd),
                            cursorPos, detectedLines)
                   ELSE <<>>
        frameOps == IF isFrame
                    THEN RenderCanvas(images, layers, layerOrder, currentTool, editSubTool,
                             EffectiveBox(boxPosRef, boxStart, boxEnd), cursorPos,
                             detectedLines)
                    ELSE <<>>
        ops == IF isFrame THEN frameOps ELSE syncOps
        passes == IF ops # <<>> THEN 1 ELSE 0
        \* effect cleanup: cancelAnimationFrame(renderRequestRef.current)
        cancelled == DepsSet /\ render.ref = "live"
        \* effect body: request a frame when both images are there
        requested == DepsSet /\ images' = LayerIds
        dragFrames ==
            CASE lastOp' = "mouseMove" /\ DragMove /\ FrameRequested(animationFrameRef) ->
                    render.frames + 1
              [] lastOp' = "transformFrame" -> render.frames - 1
              [] lastOp' \in {"mouseUp", "mouseLeave"} /\ animationFrameRef # Null ->
                    render.frames - 1
              [] OTHER -> render.frames
    IN  [mode |-> "on",
         ref |-> IF isFrame THEN "null"
                 ELSE IF requested THEN "live"
                 ELSE IF cancelled THEN "stale" ELSE render.ref,
         queue |-> IF isFrame THEN render.queue - 1
                   ELSE render.queue - (IF cancelled THEN 1 ELSE 0)
                                     + (IF requested THEN 1 ELSE 0),
         frames |-> dragFrames,
         sync |-> sync /\ syncOps # <<>>,
         since |-> IF lastOp' \in {"renderFrame", "transformFrame"} THEN passes
                   ELSE Min(render.since + passes, 3),
         ops |-> ops,
         drew |-> render.drew \/ ops # <<>>,
         recolors |-> [l \in LayerIds |-> render.recolors[l] + Recolors(lastOp', passes)]]

\* pointer is the point of a pointer-down or of a pointer-move that drags
GestureAfter(pointer) ==
    IF gesture.mode = "off" THEN gesture
    ELSE CASE lastOp' = "mouseDown" ->
                [mode |-> "on", phase |-> "down", tool |-> currentTool, from |-> pointer,
                 last |-> pointer, l0 |-> activeLayerId,
                 t0 |-> <<layers[activeLayerId].transform.x,
                          layers[activeLayerId].transform.y>>,
                 imgs0 |-> editableImages]
           [] lastOp' = "mouseMove" /\ pointer # Null -> [gesture EXCEPT !.last = pointer]
           [] lastOp' \in {"mouseUp", "mouseLeave"} -> [gesture EXCEPT !.phase = "released"]
           [] OTHER -> gesture

\* pointer is the canvas point of a pointer-down or of a pointer-move that
\* drags the layer, Null for any other handler
ObservePointer(pointer) ==
    /\ budget # <<0>>
    /\ budget' = IF budget = <<>> THEN budget ELSE <<budget[1] - 1>>
    /\ orderTrail' = IF lastOp' = "swapLayerOrder"
                     THEN SliceLast(Append(orderTrail, layerOrder), 2)
                     ELSE orderTrail
    /\ law' = LawAfter
    /\ clickTrail' =
          LET on == IF /\ clickTrail.on # Null /\ lastOp' = "detectLines"
                       /\ HasCanvas(activeLayerId)
                    THEN <<activeLayerId>> ELSE clickTrail.on
          IN  IF /\ clickTrail.mode # "off" /\ pointer # Null
                 /\ currentTool = "edit" /\ editSubTool = "line"
              THEN [mode |-> "click", p |-> pointer, prev |-> clickTrail.p,
                    before |-> selectedLines, after |-> selectedLines',
                    lines |-> detectedLines, t |-> layers[activeLayerId].transform,
                    on |-> on]
              ELSE [clickTrail EXCEPT !.on = on]
    /\ render' = RenderAfter
    /\ gesture' = GestureAfter(pointer)

Observe == ObservePointer(Null)

----------------------------------------------------------------------------
(* loadImages: both images load (c1, c2 are the recoloured canvases that   *)
(* processImagesForOverlay builds from them), or one of them fails.        *)

LoadImagesSuccess(c1, c2) ==
    /\ loading
    /\ images' = {1, 2}
    /\ editableImages' = [l \in LayerIds |-> IF l = 1 THEN c1 ELSE c2]
    /\ message' = Msg("success", "Test images loaded")
    /\ loading' = FALSE
    /\ lastOp' = "loadImages"
    /\ UNCHANGED <<layerVars, historyVars, toolVars, eraseVars, lineVars, dragVars>>
    /\ Observe

\* a failed load that keeps the image that did load
LoadImagesFailurePartial ==
    /\ loading
    /\ images' = {1}
    /\ message' = Msg("error", "Failed to load images")
    /\ loading' = FALSE
    /\ lastOp' = "loadImagesFailed"
    /\ UNCHANGED <<editableImages, layerVars, historyVars, toolVars,
                   eraseVars, lineVars, dragVars>>
    /\ Observe

LoadImagesFailure ==
    /\ loading
    /\ message' = Msg("error", "Failed to load images")
    /\ loading' = FALSE
    /\ lastOp' = "loadImagesFailed"
    /\ UNCHANGED <<images, editableImages, layerVars, historyVars, toolVars,
                   eraseVars, lineVars, dragVars>>
    /\ Observe

----------------------------------------------------------------------------
(* Layer controls *)

\* a selection that also shows the selected layer
ActivatedAndShown(ls, layerId) ==
    [l \in LayerIds |-> [ls[l] EXCEPT !.active = (layerId = l),
                                      !.visible = (layerId = l) \/ ls[l].visible]]

\* { 1: {...prev[1], active: layerId === 1}, 2: {...prev[2], active: layerId === 2} }
Activated(ls, layerId) == [l \in LayerIds |-> [ls[l] EXCEPT !.active = (layerId = l)]]

SetActiveLayer(layerId) ==
    /\ layers' = Activated(layers, layerId)
    /\ lastOp' = "setActiveLayer"
    /\ UNCHANGED <<layerOrder, visualLayerOrder, isSwapping, swapTimers, imageVars,
                   historyVars, toolVars, eraseVars, lineVars, dragVars, message>>
    /\ Observe

ToggleLayerVisibility(layerId) ==
    /\ layers' = [layers EXCEPT ![layerId].visible = ~ layers[layerId].visible]
    /\ lastOp' = "toggleLayerVisibility"
    /\ UNCHANGED <<layerOrder, visualLayerOrder, isSwapping, swapTimers, imageVars,
                   historyVars, toolVars, eraseVars, lineVars, dragVars, message>>
    /\ Observe

WithKey(t, key, value) ==
    CASE key = "x"        -> [t EXCEPT !.x = value]
      [] key = "y"        -> [t EXCEPT !.y = value]
      [] key = "rotation" -> [t EXCEPT !.rotation = value]
      [] key = "opacity"  -> [t EXCEPT !.opacity = value]
      [] key = "scale"    -> [t EXCEPT !.scale = value]

UpdateTransform(key, value) ==
    /\ layers' = [layers EXCEPT ![activeLayerId].transform =
                        WithKey(layers[activeLayerId].transform, key, value)]
    /\ lastOp' = "updateTransform"
    /\ UNCHANGED <<layerOrder, visualLayerOrder, isSwapping, swapTimers, imageVars,
                   historyVars, toolVars, eraseVars, lineVars, dragVars, message>>
    /\ Observe

ResetTransform ==
    /\ layers' = [layers EXCEPT ![activeLayerId].transform = IdentityTransform]
    /\ message' = Msg("success", "Transform reset")
    /\ lastOp' = "resetTransform"
    /\ UNCHANGED <<layerOrder, visualLayerOrder, isSwapping, swapTimers, imageVars,
                   historyVars, toolVars, eraseVars, lineVars, dragVars>>
    /\ Observe

\* an order that repeats its second element
Collapsed(order) == <<order[2], order[2]>>

\* an order with layer 2 always first
SecondFirst(order) == <<2, 1>>

\* [prev[1], prev[0]]
Swapped(order) == <<order[2], order[1]>>

\* a swap that also selects the layer it brings to the front
SwapAndSelect ==
    /\ isSwapping' = TRUE
    /\ layerOrder' = <<layerOrder[2], layerOrder[1]>>
    /\ layers' = [l \in LayerIds |-> [layers[l] EXCEPT !.active = (l = layerOrder[2])]]
    /\ swapTimers' = swapTimers + 1
    /\ lastOp' = "swapLayerOrder"
    /\ UNCHANGED <<visualLayerOrder, imageVars, historyVars, toolVars,
                   eraseVars, lineVars, dragVars, message>>
    /\ Observe

SwapLayerOrder ==
    /\ isSwapping' = TRUE
    /\ layerOrder' = Swapped(layerOrder)
    /\ swapTimers' = swapTimers + 1
    /\ lastOp' = "swapLayerOrder"
    /\ UNCHANGED <<layers, visualLayerOrder, imageVars, historyVars, toolVars,
                   eraseVars, lineVars, dragVars, message>>
    /\ Observe

\* the 300 ms timeout of swapLayerOrder
SwapTimeout ==
    /\ swapTimers > 0
    /\ swapTimers' = swapTimers - 1
    /\ visualLayerOrder' = Swapped(visualLayerOrder)
    /\ isSwapping' = FALSE
    /\ message' = Msg("success", "Layer order swapped")
    /\ lastOp' = "swapTimeout"
    /\ UNCHANGED <<layers, layerOrder, imageVars, historyVars, toolVars,
                   eraseVars, lineVars, dragVars>>
    /\ Observe

----------------------------------------------------------------------------
(* Tool selection *)

\* a tool change that starts from a clean history
SetCurrentToolClearing(tool) ==
    /\ currentTool' = tool
    /\ undoHistory' = <<>>
    /\ redoHistory' = <<>>
    /\ lastOp' = "setCurrentTool"
    /\ UNCHANGED <<editSubTool, brushSize, layerVars, imageVars,
                   eraseVars, lineVars, dragVars, message>>
    /\ Observe

SetCurrentTool(tool) ==
    /\ currentTool' = tool
    /\ lastOp' = "setCurrentTool"
    /\ UNCHANGED <<editSubTool, brushSize, layerVars, imageVars, historyVars,
                   eraseVars, lineVars, dragVars, message>>
    /\ Observe

SetEditSubTool(tool) ==
    /\ editSubTool' = tool
    /\ lastOp' = "setEditSubTool"
    /\ UNCHANGED <<currentTool, brushSize, layerVars, imageVars, historyVars,
                   eraseVars, lineVars, dragVars, message>>
    /\ Observe

SetBrushSize(size) ==
    /\ brushSize' = size
    /\ lastOp' = "setBrushSize"
    /\ UNCHANGED <<currentTool, editSubTool, layerVars, imageVars, historyVars,
                   eraseVars, lineVars, dragVars, message>>
    /\ Observe

----------------------------------------------------------------------------
(* saveUndoState, as the two setState calls it makes for layer l *)

\* a snapshot of a cleared canvas
BlankSnapshot(l) == Entry(l, {})

SnapshotOf(l) == Entry(l, editableImages[l])

\* a save that pushes an empty snapshot for a layer without a canvas
UndoAfterSaveUnguarded(l) ==
    PushBounded(undoHistory, IF HasCanvas(l) THEN SnapshotOf(l) ELSE Entry(l, {}))

\* a save onto a stack whose earlier entries of layer l share the storage of
\* the live canvas, and so show its present content
UndoAfterSaveShared(l) ==
    IF HasCanvas(l)
    THEN PushBounded([i \in 1..Len(undoHistory) |->
                         IF undoHistory[i].layerId = l
                         THEN Entry(l, editableImages[l]) ELSE undoHistory[i]],
                     SnapshotOf(l))
    ELSE undoHistory

UndoAfterSave(l) ==
    IF HasCanvas(l) THEN PushBounded(undoHistory, SnapshotOf(l)) ELSE undoHistory

\* a save that leaves the redo stack alone
RedoKept(l) == redoHistory

RedoAfterSave(l) ==
    IF HasCanvas(l) THEN <<>> ELSE redoHistory

----------------------------------------------------------------------------
(* Edit tools *)

\* eraseAtPoint: the canvas of layer l after a brush dab at canvas point p
EraseAtPoint(l, p) ==
    LET t == layers[l].transform
    IN  EraseCircle(editableImages[l], ImagePoint(p, t), (brushSize * 100) \div t.scale)

\* a box erased from its anchor by the signed extent of the drag
EraseBoxFromAnchor(l, s, e) ==
    EraseRect(editableImages[l], s[1], s[2], e[1] - s[1], e[2] - s[2])

\* eraseBox: the canvas of layer l after erasing the box between the two corners
EraseBox(l, s, e) ==
    EraseRect(editableImages[l], Min(s[1], e[1]), Min(s[2], e[2]),
              Abs(e[1] - s[1]), Abs(e[2] - s[2]))

\* pointToSegmentDistance, squared.  Every detected segment is horizontal with
\* x1 < x2 (detectLinesOnCanvas builds no other), or a single point: there
\* t * dx = clamp(px - x1, 0, dx) and t * dy = 0, so the result is an integer.
PointToSegmentDistance2(px, py, line) ==
    LET dx == line.x2 - line.x1
        dy == line.y2 - line.y1
    IN  IF dx = 0 /\ dy = 0
        THEN (px - line.x1) * (px - line.x1) + (py - line.y1) * (py - line.y1)
        ELSE LET closestX == line.x1 + Max(0, Min(dx, px - line.x1))
                 closestY == line.y1
             IN  (px - closestX) * (px - closestX) + (py - closestY) * (py - closestY)

\* dist(a) < dist(b) for the distances of (px, py) to lines[a], lines[b]
Closer(px, py, lines, a, b) ==
    PointToSegmentDistance2(px, py, lines[a]) < PointToSegmentDistance2(px, py, lines[b])

\* a test that every segment passes
AlwaysWithin(px, py, line, threshold) == TRUE

WithinThreshold(px, py, line, threshold) ==
    PointToSegmentDistance2(px, py, line) < threshold * threshold

\* findLineNearPoint: 0 stands for null, indices are 1-based here
RECURSIVE FindFrom(_, _, _, _, _, _)
FindFrom(px, py, lines, threshold, idx, nearest) ==
    IF idx > Len(lines) THEN nearest
    ELSE IF /\ WithinThreshold(px, py, lines[idx], threshold)
            /\ (nearest = 0 \/ Closer(px, py, lines, idx, nearest))
         THEN FindFrom(px, py, lines, threshold, idx + 1, idx)
         ELSE FindFrom(px, py, lines, threshold, idx + 1, nearest)

\* the first segment within the threshold, not the nearest
FindFirstNear(px, py, lines) ==
    LET near == {i \in 1..Len(lines) : WithinThreshold(px, py, lines[i], LineThreshold)}
    IN  IF near = {} THEN 0 ELSE CHOOSE i \in near : \A j \in near : i <= j

FindLineNearPoint(px, py, lines) == FindFrom(px, py, lines, LineThreshold, 1, 0)

\* a toggle that only ever selects
ToggleOn(set, idx) == set \cup {idx}

Toggle(set, idx) == IF idx \in set THEN set \ {idx} ELSE set \cup {idx}

----------------------------------------------------------------------------
(* Pointer handlers *)

\* a move that drags the whole box along with the pointer
BoxRefReanchored(ref, pos) == [start |-> pos, end |-> pos]

\* boxPosRef.current.end = pos
BoxRefMoved(ref, pos) == [ref EXCEPT !.end = pos]

HandleMouseDown(p) ==
    /\ lastOp' = "mouseDown"
    /\ CASE currentTool = "overlay" ->
              /\ isDragging' = TRUE
              /\ dragStart' = p
              /\ UNCHANGED <<pendingTransformRef, animationFrameRef, layerVars, imageVars,
                             historyVars, toolVars, eraseVars, lineVars, message>>
         [] currentTool = "edit" /\ editSubTool = "brush" ->
              /\ undoHistory' = UndoAfterSave(activeLayerId)
              /\ redoHistory' = RedoAfterSave(activeLayerId)
              /\ isErasing' = TRUE
              /\ editableImages' =
                    IF HasCanvas(activeLayerId)
                    THEN [editableImages EXCEPT ![activeLayerId] = EraseAtPoint(activeLayerId, p)]
                    ELSE editableImages
              /\ UNCHANGED <<loading, images, boxStart, boxEnd, boxPosRef, cursorPos,
                             layerVars, toolVars, lineVars, dragVars, message>>
         [] currentTool = "edit" /\ editSubTool = "box" ->
              LET pos == ImagePoint(p, layers[activeLayerId].transform)
              IN  /\ boxStart' = pos
                  /\ boxEnd' = pos
                  /\ boxPosRef' = [start |-> pos, end |-> pos]
                  /\ UNCHANGED <<isErasing, cursorPos, layerVars, imageVars, historyVars,
                                 toolVars, lineVars, dragVars, message>>
         [] currentTool = "edit" /\ editSubTool = "line" ->
              LET pos == ImagePoint(p, layers[activeLayerId].transform)
                  lineIdx == FindLineNearPoint(pos[1], pos[2], detectedLines)
              IN  /\ selectedLines' =
                        IF lineIdx # 0 THEN Toggle(selectedLines, lineIdx) ELSE selectedLines
                  /\ UNCHANGED <<detectedLines, layerVars, imageVars, historyVars,
                                 toolVars, eraseVars, dragVars, message>>
    /\ ObservePointer(p)

HandleMouseMove(p) ==
    /\ lastOp' = "mouseMove"
    /\ CASE currentTool = "edit" /\ editSubTool = "brush" ->
              /\ cursorPos' = p
              /\ editableImages' =
                    IF isErasing /\ HasCanvas(activeLayerId)
                    THEN [editableImages EXCEPT ![activeLayerId] = EraseAtPoint(activeLayerId, p)]
                    ELSE editableImages
              /\ UNCHANGED <<loading, images, isErasing, boxStart, boxEnd, boxPosRef,
                             layerVars, historyVars, toolVars, lineVars, dragVars, message>>
         [] currentTool = "edit" /\ editSubTool = "box" /\ boxStart # Null ->
              LET pos == ImagePoint(p, layers[activeLayerId].transform)
              IN  /\ boxPosRef' = BoxRefMoved(boxPosRef, pos)
                  /\ boxEnd' = pos
                  /\ UNCHANGED <<isErasing, boxStart, cursorPos, layerVars, imageVars,
                                 historyVars, toolVars, lineVars, dragVars, message>>
         [] OTHER ->
              IF ~ isDragging \/ dragStart = Null \/ currentTool # "overlay"
              THEN UNCHANGED <<layerVars, imageVars, historyVars, toolVars, eraseVars,
                               lineVars, dragVars, message>>
              ELSE LET dx == p[1] - dragStart[1]
                       dy == p[2] - dragStart[2]
                   IN  /\ pendingTransformRef' =
                              <<dx * MOVEMENT_MULTIPLIER, dy * MOVEMENT_MULTIPLIER>>
                       /\ dragStart' = p
                       /\ animationFrameRef' =
                              IF FrameRequested(animationFrameRef) THEN <<activeLayerId>>
                              ELSE animationFrameRef
                       /\ UNCHANGED <<isDragging, layerVars, imageVars, historyVars,
                                      toolVars, eraseVars, lineVars, message>>
    /\ ObservePointer(IF DragMove THEN p ELSE Null)

\* the animation-frame callback that handleMouseMove requests
TransformFrame ==
    /\ animationFrameRef # Null
    /\ lastOp' = "transformFrame"
    /\ LET l == animationFrameRef[1]
           t == layers[l].transform
       IN  IF pendingTransformRef # Null
           THEN layers' = [layers EXCEPT ![l].transform =
                              [t EXCEPT !.x = t.x + pendingTransformRef[1],
                                        !.y = t.y + pendingTransformRef[2]]]
           ELSE layers' = layers
    /\ pendingTransformRef' = Null
    /\ animationFrameRef' = Null
    /\ UNCHANGED <<layerOrder, visualLayerOrder, isSwapping, swapTimers, imageVars,
                   historyVars, toolVars, eraseVars, lineVars, isDragging, dragStart,
                   message>>
    /\ Observe

\* the animation-frame callback that the render effect requests
RenderFrame ==
    /\ render.queue > 0
    /\ lastOp' = "renderFrame"
    /\ UNCHANGED <<layerVars, imageVars, historyVars, toolVars, eraseVars, lineVars,
                   dragVars, message>>
    /\ Observe

\* the part of handleMouseUp shared with handleMouseLeave
MouseUpEffect ==
    /\ IF currentTool = "edit" /\ editSubTool = "box" /\ boxStart # Null /\ boxEnd # Null
       THEN /\ undoHistory' = UndoAfterSave(activeLayerId)
            /\ redoHistory' = RedoAfterSave(activeLayerId)
            /\ IF HasCanvas(activeLayerId)
               THEN /\ editableImages' = [editableImages EXCEPT ![activeLayerId] =
                                             EraseBox(activeLayerId, boxStart, boxEnd)]
                    /\ message' = Msg("success", "Box erased")
               ELSE UNCHANGED <<editableImages, message>>
            /\ boxStart' = Null
            /\ boxEnd' = Null
            /\ boxPosRef' = [start |-> Null, end |-> Null]
       ELSE UNCHANGED <<historyVars, editableImages, message, boxStart, boxEnd, boxPosRef>>
    /\ isDragging' = FALSE
    /\ isErasing' = FALSE
    /\ dragStart' = Null
    /\ pendingTransformRef' = Null
    /\ animationFrameRef' = Null
    /\ UNCHANGED <<loading, images, layerVars, toolVars, lineVars>>

HandleMouseUp ==
    /\ lastOp' = "mouseUp"
    /\ MouseUpEffect
    /\ UNCHANGED cursorPos
    /\ Observe

\* a leave that drops a box drag in progress without erasing
HandleMouseLeaveCancelling ==
    /\ lastOp' = "mouseLeave"
    /\ boxStart' = Null
    /\ boxEnd' = Null
    /\ boxPosRef' = [start |-> Null, end |-> Null]
    /\ isDragging' = FALSE
    /\ isErasing' = FALSE
    /\ dragStart' = Null
    /\ pendingTransformRef' = Null
    /\ animationFrameRef' = Null
    /\ cursorPos' = Null
    /\ UNCHANGED <<imageVars, historyVars, message, layerVars, toolVars, lineVars>>
    /\ Observe

HandleMouseLeave ==
    /\ lastOp' = "mouseLeave"
    /\ MouseUpEffect
    /\ cursorPos' = Null
    /\ Observe

----------------------------------------------------------------------------
(* Line tool *)

\* the rows detectLinesOnCanvas scans and the shortest run it reports
DetectRowStep == 10
DetectMinRun == 20

Line(x1, y1, x2, y2) == [x1 |-> x1, y1 |-> y1, x2 |-> x2, y2 |-> y2]

ImageWidth  == Cardinality(GridCols) * CellSize
ImageHeight == Cardinality(GridRows) * CellSize

\* the inner loop over x for row y, cell by cell: start is the pending lineStart
\* (-1 for null); a run is reported only when an uncoloured pixel ends it
RECURSIVE ScanRow(_, _, _, _)
ScanRow(canvas, y, col, start) ==
    IF col >= Cardinality(GridCols) THEN <<>>
    ELSE LET isColored == <<col, y \div CellSize>> \in canvas
             x == col * CellSize
         IN  IF isColored /\ start = -1 THEN ScanRow(canvas, y, col + 1, x)
             ELSE IF ~ isColored /\ start # -1
                  THEN (IF x - start > DetectMinRun THEN <<Line(start, y, x, y)>> ELSE <<>>)
                       \o ScanRow(canvas, y, col + 1, -1)
                  ELSE ScanRow(canvas, y, col + 1, start)

RECURSIVE ScanRows(_, _)
ScanRows(canvas, y) ==
    IF y >= ImageHeight THEN <<>>
    ELSE ScanRow(canvas, y, 0, -1) \o ScanRows(canvas, y + DetectRowStep)

DetectLines(canvas) == ScanRows(canvas, 0)

DetectLinesOnCanvas ==
    /\ HasCanvas(activeLayerId)
    /\ detectedLines' = DetectLines(editableImages[activeLayerId])
    /\ message' = Msg("success", "Detected lines")
    /\ lastOp' = "detectLines"
    /\ UNCHANGED <<selectedLines, layerVars, imageVars, historyVars, toolVars,
                   eraseVars, dragVars>>
    /\ Observe

\* the strokes of eraseSelectedLines, one per selected index that names a line
RECURSIVE EraseLines(_, _, _)
EraseLines(canvas, lines, selected) ==
    IF selected = {} THEN canvas
    ELSE LET idx == CHOOSE i \in selected : TRUE
         IN  EraseLines(IF idx \in DOMAIN lines
                        THEN EraseStroke(canvas, lines[idx], EraseLineWidth)
                        ELSE canvas,
                        lines, selected \ {idx})

\* an erase of the selected segments on the canvas of every layer
EraseSelectedLinesEverywhere ==
    /\ lastOp' = "eraseSelectedLines"
    /\ IF selectedLines = {}
       THEN /\ message' = Msg("error", "No lines selected")
            /\ UNCHANGED <<historyVars, editableImages, selectedLines>>
       ELSE /\ undoHistory' = UndoAfterSave(activeLayerId)
            /\ redoHistory' = RedoAfterSave(activeLayerId)
            /\ IF HasCanvas(activeLayerId)
               THEN /\ editableImages' = [l \in DOMAIN editableImages |->
                            EraseLines(editableImages[l], detectedLines, selectedLines)]
                    /\ selectedLines' = {}
                    /\ message' = Msg("success", "line(s) erased")
               ELSE UNCHANGED <<editableImages, selectedLines, message>>
    /\ UNCHANGED <<loading, images, detectedLines, layerVars, toolVars, eraseVars, dragVars>>
    /\ Observe

EraseSelectedLines ==
    /\ lastOp' = "eraseSelectedLines"
    /\ IF selectedLines = {}
       THEN /\ message' = Msg("error", "No lines selected")
            /\ UNCHANGED <<historyVars, editableImages, selectedLines>>
       ELSE /\ undoHistory' = UndoAfterSave(activeLayerId)
            /\ redoHistory' = RedoAfterSave(activeLayerId)
            /\ IF HasCanvas(activeLayerId)
               THEN /\ editableImages' = [editableImages EXCEPT ![activeLayerId] =
                            EraseLines(editableImages[activeLayerId], detectedLines,
                                       selectedLines)]
                    /\ selectedLines' = {}
                    /\ message' = Msg("success", "line(s) erased")
               ELSE UNCHANGED <<editableImages, selectedLines, message>>
    /\ UNCHANGED <<loading, images, detectedLines, layerVars, toolVars, eraseVars, dragVars>>
    /\ Observe

ClearSelection ==
    /\ selectedLines' = {}
    /\ lastOp' = "clearSelection"
    /\ UNCHANGED <<detectedLines, layerVars, imageVars, historyVars, toolVars,
                   eraseVars, dragVars, message>>
    /\ Observe

----------------------------------------------------------------------------
(* undo and redo *)

\* an undo that reports success whatever the undo stack holds
UndoAnnounced ==
    /\ lastOp' = "undo"
    /\ editableImages' = UndoOf(HistoryState).imgs
    /\ undoHistory' = UndoOf(HistoryState).undo
    /\ redoHistory' = UndoOf(HistoryState).redo
    /\ message' = Msg("success", "Undo")
    /\ UNCHANGED <<loading, images, layerVars, toolVars, eraseVars, lineVars, dragVars>>
    /\ Observe

Undo ==
    /\ lastOp' = "undo"
    /\ editableImages' = UndoOf(HistoryState).imgs
    /\ undoHistory' = UndoOf(HistoryState).undo
    /\ redoHistory' = UndoOf(HistoryState).redo
    /\ message' = IF CanUndo(HistoryState) THEN Msg("success", "Undo") ELSE message
    /\ UNCHANGED <<loading, images, layerVars, toolVars, eraseVars, lineVars, dragVars>>
    /\ Observe

Redo ==
    /\ lastOp' = "redo"
    /\ editableImages' = RedoOf(HistoryState).imgs
    /\ undoHistory' = RedoOf(HistoryState).undo
    /\ redoHistory' = RedoOf(HistoryState).redo
    /\ message' = IF CanRedo(HistoryState) THEN Msg("success", "Redo") ELSE message
    /\ UNCHANGED <<loading, images, layerVars, toolVars, eraseVars, lineVars, dragVars>>
    /\ Observe

----------------------------------------------------------------------------
(* Inputs *)

Tools == {"overlay", "edit"}
SubTools == {"brush", "box", "line"}

\* canvas points of the pointer events
Points == {<<10, 20>>, <<50, 30>>}

\* recoloured canvases an image load can produce
LoadedCanvases == {Cells \ {<<2, 0>>}}

\* values the sliders deliver
SliderValues(key) ==
    CASE key = "x"        -> {20}
      [] key = "y"        -> {20}
      [] key = "rotation" -> {90}
      [] key = "opacity"  -> {50}
      [] key = "scale"    -> {50}

TransformKeys == {"x", "y", "rotation", "opacity", "scale"}
\* the sliders moved here; SpecTransform moves x, y, rotation and scale
SliderKeys == TransformKeys \ {"y", "rotation"}
BrushSizes == {5}

Next ==
    \/ \E c1 \in LoadedCanvases, c2 \in LoadedCanvases : LoadImagesSuccess(c1, c2)
    \/ LoadImagesFailure
    \/ \E l \in LayerIds : SetActiveLayer(l)
    \/ \E l \in LayerIds : ToggleLayerVisibility(l)
    \/ \E key \in SliderKeys : \E v \in SliderValues(key) : UpdateTransform(key, v)
    \/ ResetTransform
    \/ SwapLayerOrder
    \/ SwapTimeout
    \/ \E t \in Tools : SetCurrentTool(t)
    \/ \E t \in SubTools : SetEditSubTool(t)
    \/ \E b \in BrushSizes : SetBrushSize(b)
    \/ \E p \in Points : HandleMouseDown(p)
    \/ \E p \in Points : HandleMouseMove(p)
    \/ TransformFrame
    \/ HandleMouseUp
    \/ HandleMouseLeave
    \/ DetectLinesOnCanvas
    \/ EraseSelectedLines
    \/ ClearSelection
    \/ Undo
    \/ Redo

Spec == Init /\ [][Next]_vars

\* the edit tools and the history, explored to the full depth of the stacks
HistPoints == {<<20, 20>>}

NextHist ==
    \/ LoadImagesSuccess(Cells, Cells)
    \/ SetCurrentTool("edit")
    \/ SetActiveLayer(2)
    \/ \E p \in HistPoints : HandleMouseDown(p)
    \/ \E p \in HistPoints : HandleMouseMove(p)
    \/ HandleMouseUp
    \/ Undo
    \/ Redo

SpecHist == InitHist /\ [][NextHist]_vars

\* the three edit tools on both layers
NextEdit ==
    \/ \E c \in LoadedCanvases : LoadImagesSuccess(c, c)
    \/ SetCurrentTool("edit")
    \/ \E t \in SubTools : SetEditSubTool(t)
    \/ \E l \in LayerIds : SetActiveLayer(l)
    \/ \E p \in Points : HandleMouseDown(p)
    \/ \E p \in Points : HandleMouseMove(p)
    \/ HandleMouseUp
    \/ HandleMouseLeave
    \/ DetectLinesOnCanvas
    \/ EraseSelectedLines
    \/ ClearSelection
    \/ Undo
    \/ Redo

SpecEdit == InitEdit /\ [][NextEdit]_vars

\* the box tool on both layers, dragged between the corners of a rectangle
BoxPoints == {<<10, 20>>, <<50, 20>>, <<10, 30>>, <<50, 30>>}

NextBox ==
    \/ \E c \in LoadedCanvases : LoadImagesSuccess(c, c)
    \/ SetCurrentTool("edit")
    \/ SetEditSubTool("box")
    \/ \E l \in LayerIds : SetActiveLayer(l)
    \/ \E p \in BoxPoints : HandleMouseDown(p)
    \/ \E p \in BoxPoints : HandleMouseMove(p)
    \/ HandleMouseUp
    \/ HandleMouseLeave
    \/ Undo
    \/ Redo

SpecBox == InitBox /\ [][NextBox]_vars

\* the line tool on both layers: clicks on a segment, between segments and
\* beyond the end of the segments, with the active layer moved or not
LinePoints == {<<10, 20>>, <<50, 30>>, <<110, 20>>}

NextLine ==
    \/ \E c \in LoadedCanvases : LoadImagesSuccess(c, c)
    \/ SetCurrentTool("edit")
    \/ SetEditSubTool("line")
    \/ \E l \in LayerIds : SetActiveLayer(l)
    \/ UpdateTransform("x", 20)
    \/ \E p \in LinePoints : HandleMouseDown(p)
    \/ DetectLinesOnCanvas
    \/ EraseSelectedLines
    \/ ClearSelection
    \/ Undo
    \/ Redo

SpecLine == InitLine /\ [][NextLine]_vars

----------------------------------------------------------------------------
(* Coordinate conversions in exact arithmetic.  A number is a fraction in  *)
(* lowest terms <<n, d>> with d > 0; a transform's scale is in percent.    *)

RECURSIVE GCD(_, _)
GCD(a, b) == IF b = 0 THEN a ELSE GCD(b, a % b)

Rat(n, d) ==
    LET g == GCD(Abs(n), Abs(d))
        s == IF d < 0 THEN -1 ELSE 1
    IN  <<(s * n) \div g, (s * d) \div g>>

Whole(n) == <<n, 1>>
RAdd(a, b) == Rat(a[1] * b[2] + b[1] * a[2], a[2] * b[2])
RSub(a, b) == Rat(a[1] * b[2] - b[1] * a[2], a[2] * b[2])
RMul(a, b) == Rat(a[1] * b[1], a[2] * b[2])
RDiv(a, b) == Rat(a[1] * b[2], a[2] * b[1])
RLess(a, b) == a[1] * b[2] < b[1] * a[2]
RMin(a, b) == IF RLess(b, a) THEN b ELSE a

\* transform.scale as a number
ScaleOf(t) == Rat(t.scale, 100)

\* a forward conversion that adds the offset before it scales
ToCanvasShiftFirst(v, offset, scale) == RMul(RAdd(v, Whole(offset)), scale)

\* image -> display conversion of the box preview: v * scale + offset
ToCanvasR(v, offset, scale) == RAdd(RMul(v, scale), Whole(offset))

\* display -> image conversion of the edit tools: (canvas - offset) / scale
ToImageR(c, offset, scale) == RDiv(RSub(c, Whole(offset)), scale)

CanvasPointR(q, t) == <<ToCanvasR(q[1], t.x, ScaleOf(t)), ToCanvasR(q[2], t.y, ScaleOf(t))>>
ImagePointR(p, t) == <<ToImageR(p[1], t.x, ScaleOf(t)), ToImageR(p[2], t.y, ScaleOf(t))>>

CANVAS_WIDTH == 1600
CANVAS_HEIGHT == 1200

\* Math.min(CANVAS_WIDTH / maxImageWidth, CANVAS_HEIGHT / maxImageHeight); the
\* two images of a load have the same size
ScaleToFit == RMin(Rat(CANVAS_WIDTH, ImageWidth), Rat(CANVAS_HEIGHT, ImageHeight))

\* ctx.rotate by a multiple of a quarter turn, applied to the vector d
Rotated(d, rotation) ==
    CASE rotation % 360 = 0   -> d
      [] rotation % 360 = 90  -> <<RSub(Whole(0), d[2]), d[1]>>
      [] rotation % 360 = 180 -> <<RSub(Whole(0), d[1]), RSub(Whole(0), d[2])>>
      [] rotation % 360 = 270 -> <<d[2], RSub(Whole(0), d[1])>>

\* where the compositor draws pixel q of a layer: translate to the centre of
\* the fitted image plus the offset, rotate, scale by scale * scaleToFit, and
\* draw the image with its centre at the origin
DrawnAt(q, t) ==
    LET scale == RMul(ScaleOf(t), ScaleToFit)
        centerX == RDiv(RMul(Whole(ImageWidth), ScaleToFit), Whole(2))
        centerY == RDiv(RMul(Whole(ImageHeight), ScaleToFit), Whole(2))
        d == Rotated(<<RMul(RSub(q[1], Rat(ImageWidth, 2)), scale),
                       RMul(RSub(q[2], Rat(ImageHeight, 2)), scale)>>, t.rotation)
    IN  <<RAdd(RAdd(centerX, Whole(t.x)), d[1]), RAdd(RAdd(centerY, Whole(t.y)), d[2])>>

\* the same initial state, explored for MaxTransformSteps handler calls
InitTransform ==
    /\ InitState
    /\ budget = <<MaxTransformSteps>>
    /\ law = NoLaw
    /\ clickTrail = NoClick("off")
    /\ render = RenderOff
    /\ gesture = GestureOff

\* values of the position, rotation and scale sliders
TransformValues(key) ==
    CASE key = "x"        -> {-500, 7}
      [] key = "y"        -> {-30}
      [] key = "rotation" -> {90}
      [] key = "scale"    -> {10, 30, 200}

\* points of the image or of the display, whole and fractional
ProbePoints ==
    {<<Whole(0), Whole(0)>>, <<Whole(100), Whole(100)>>, <<Rat(7, 3), Rat(-5, 2)>>,
     <<Whole(CANVAS_WIDTH), Whole(CANVAS_HEIGHT)>>}

\* the box tool under transforms of both layers
NextTransform ==
    \/ \E c \in LoadedCanvases : LoadImagesSuccess(c, c)
    \/ SetCurrentTool("edit")
    \/ SetEditSubTool("box")
    \/ \E l \in LayerIds : SetActiveLayer(l)
    \/ \E key \in {"x", "y", "rotation", "scale"} :
          \E v \in TransformValues(key) : UpdateTransform(key, v)
    \/ ResetTransform
    \/ \E p \in Points : HandleMouseDown(p)

SpecTransform == InitTransform /\ [][NextTransform]_vars

\* the same initial state, explored for MaxRenderSteps handler calls, the
\* rendering followed
InitRender ==
    /\ InitState
    /\ budget = <<MaxRenderSteps>>
    /\ law = NoLaw
    /\ clickTrail = NoClick("off")
    /\ render = RenderOn
    /\ gesture = GestureOff

\* the handlers and the two kinds of animation-frame callback
NextRender ==
    \/ \E c \in LoadedCanvases : LoadImagesSuccess(c, c)
    \/ LoadImagesFailure
    \/ \E t \in Tools : SetCurrentTool(t)
    \/ \E s \in SubTools : SetEditSubTool(s)
    \/ \E l \in LayerIds : SetActiveLayer(l)
    \/ \E l \in LayerIds : ToggleLayerVisibility(l)
    \/ SwapLayerOrder
    \/ SwapTimeout
    \/ \E p \in Points : HandleMouseDown(p)
    \/ \E p \in Points : HandleMouseMove(p)
    \/ HandleMouseUp
    \/ TransformFrame
    \/ RenderFrame
    \/ DetectLinesOnCanvas
    \/ Undo

SpecRender == InitRender /\ [][NextRender]_vars

\* the same initial state, explored for MaxDetectSteps handler calls, the
\* clicks of the line tool and the detections followed
InitDetect ==
    /\ InitState
    /\ budget = <<MaxDetectSteps>>
    /\ law = NoLaw
    /\ clickTrail = [NoClick("none") EXCEPT !.on = <<0>>]
    /\ render = RenderOff
    /\ gesture = GestureOff

\* recoloured canvases of a second drawing: the same line-work, or none
SecondCanvases == LoadedCanvases \cup {{}}

\* the line tool on two drawings that need not have the same segments
NextDetect ==
    \/ \E c1 \in LoadedCanvases, c2 \in SecondCanvases : LoadImagesSuccess(c1, c2)
    \/ SetCurrentTool("edit")
    \/ SetEditSubTool("line")
    \/ \E l \in LayerIds : SetActiveLayer(l)
    \/ \E p \in LinePoints : HandleMouseDown(p)
    \/ DetectLinesOnCanvas
    \/ EraseSelectedLines
    \/ ClearSelection

SpecDetect == InitDetect /\ [][NextDetect]_vars

----------------------------------------------------------------------------
(* Properties *)

\* C1: the undo stack and the redo stack never hold more than 10 entries;
\* every edit and every redo pushes onto the undo stack, every undo onto the
\* redo stack, and after a push the stack holds the pushed entry on top of what
\* it held before, less its oldest entry when it was full; a stack changes
\* in no other way than by a push, a pop or a clear
BoundedHistory ==
    /\ [](Len(undoHistory) <= 10 /\ Len(redoHistory) <= 10)
    /\ [][LET Pushed(s, t) ==
                  /\ t # <<>>
                  /\ SubSeq(t, 1, Len(t) - 1) = IF Len(s) < 10 THEN s ELSE Tail(s)
               Step(s, t) ==
                  t = s \/ t = <<>> \/ t = SubSeq(s, 1, Len(s) - 1) \/ Pushed(s, t)
               Edit ==
                  /\ HasCanvas(activeLayerId)
                  /\ \/ /\ lastOp' = "mouseDown"
                        /\ currentTool = "edit" /\ editSubTool = "brush"
                     \/ /\ lastOp' \in {"mouseUp", "mouseLeave"}
                        /\ currentTool = "edit" /\ editSubTool = "box"
                        /\ boxStart # Null /\ boxEnd # Null
                     \/ lastOp' = "eraseSelectedLines" /\ selectedLines # {}
           IN  /\ Step(undoHistory, undoHistory')
               /\ Step(redoHistory, redoHistory')
               /\ Edit => Pushed(undoHistory, undoHistory')
               /\ (lastOp' = "redo" /\ redoHistory # <<>>)
                    => Pushed(undoHistory, undoHistory')
               /\ (lastOp' = "undo" /\ undoHistory # <<>>)
                    => Pushed(redoHistory, redoHistory')]_vars

\* a full undo stack whose oldest entry is no longer the first snapshot taken
EvictedOldest ==
    /\ lastOp = "mouseDown"
    /\ law = [phase |-> "off", base |-> [l \in LayerIds |-> Cells], post |-> <<>>]
    /\ activeLayerId = 1
    /\ Len(undoHistory) = 10
    /\ undoHistory[1].imageData # Cells

LinearHistory ==
    [][/\ (lastOp' = "mouseDown" /\ currentTool = "edit" /\ editSubTool = "brush")
            => redoHistory' = <<>>
       /\ (/\ lastOp' \in {"mouseUp", "mouseLeave"}
           /\ currentTool = "edit" /\ editSubTool = "box"
           /\ boxStart # Null /\ boxEnd # Null)
            => redoHistory' = <<>>
       /\ (lastOp' = "eraseSelectedLines" /\ selectedLines # {})
            => redoHistory' = <<>>
       /\ (lastOp' = "redo" /\ redoHistory # <<>>)
            => redoHistory' = SubSeq(redoHistory, 1, Len(redoHistory) - 1)
       /\ (lastOp' = "redo" /\ redoHistory = <<>>)
            => UNCHANGED <<editableImages, undoHistory, redoHistory>>]_vars

\* a brush stroke begun right after an undo: the entry the undo had moved to
\* the redo stack is gone
RedoDiscarded ==
    /\ lastOp = "mouseDown"
    /\ isErasing
    /\ message = Msg("success", "Undo")
    /\ Len(undoHistory) = 1
    /\ redoHistory = <<>>

\* C4: an undo puts the popped snapshot into the canvas of the layer the entry
\* names and pushes that layer's canvas of the moment onto the redo stack;
\* a redo does the same with the stacks exchanged; the other layer's canvas
\* stays as it is, whichever layer is active
RestoreByEntry ==
    [][/\ (lastOp' = "undo" /\ undoHistory # <<>>) =>
            LET e == undoHistory[Len(undoHistory)]
            IN  /\ editableImages' = [editableImages EXCEPT ![e.layerId] = e.imageData]
                /\ redoHistory' = Append(redoHistory,
                        [layerId |-> e.layerId, imageData |-> editableImages[e.layerId]])
                /\ undoHistory' = SubSeq(undoHistory, 1, Len(undoHistory) - 1)
       /\ (lastOp' = "redo" /\ redoHistory # <<>>) =>
            LET e == redoHistory[Len(redoHistory)]
            IN  /\ editableImages' = [editableImages EXCEPT ![e.layerId] = e.imageData]
                /\ undoHistory' = Append(undoHistory,
                        [layerId |-> e.layerId, imageData |-> editableImages[e.layerId]])
                /\ redoHistory' = SubSeq(redoHistory, 1, Len(redoHistory) - 1)]_vars

\* an edit of layer 1 undone while layer 2 is the active layer
UndoneOnInactive ==
    /\ lastOp = "undo"
    /\ activeLayerId = 2
    /\ redoHistory # <<>>
    /\ redoHistory[Len(redoHistory)].layerId = 1
    /\ redoHistory[Len(redoHistory)].imageData # editableImages[1]

\* C5: an undo on an empty undo stack and a redo on an empty redo stack change
\* no canvas, neither stack, no other state of the editor, and not the message
EmptyStackNoOp ==
    [][(\/ lastOp' = "undo" /\ undoHistory = <<>>
        \/ lastOp' = "redo" /\ redoHistory = <<>>)
        => UNCHANGED <<layerVars, imageVars, historyVars, toolVars, eraseVars,
                       lineVars, dragVars, message>>]_vars

\* a redo called in the middle of a brush stroke, with nothing to redo
RedoOnEmpty ==
    /\ lastOp = "redo"
    /\ isErasing
    /\ undoHistory # <<>>
    /\ redoHistory = <<>>
    /\ message = Msg("success", "Test images loaded")

\* C6: exactly one layer is active; a selection changes no visible flag and a
\* visibility toggle changes no active flag
ActiveIndependentOfVisible ==
    /\ [](\E l \in LayerIds :
            layers[l].active /\ \A m \in LayerIds \ {l} : ~ layers[m].active)
    /\ [][/\ lastOp' = "setActiveLayer"
               => \A l \in LayerIds : layers'[l].visible = layers[l].visible
          /\ lastOp' = "toggleLayerVisibility"
               => \A l \in LayerIds : layers'[l].active = layers[l].active]_vars

\* layer 2 selected while it is hidden
HiddenActive ==
    /\ lastOp = "setActiveLayer"
    /\ layers[2].active
    /\ ~ layers[2].visible
    /\ layers[1].visible

\* C7: the paint order is a permutation of {1, 2}, and only the swap changes it
OrderOnlySwapped ==
    /\ [](layerOrder \in {<<1, 2>>, <<2, 1>>})
    /\ [][layerOrder' # layerOrder => lastOp' = "swapLayerOrder"]_vars

\* the swapped order, kept through an undo
SwappedOrderKept ==
    /\ layerOrder = <<2, 1>>
    /\ lastOp = "undo"
    /\ redoHistory # <<>>

\* C8: after two swaps the paint order is what it was before the first of them
SwapInvolution ==
    Len(orderTrail) = 2 => layerOrder = orderTrail[1]

\* two swaps made from the swapped order
SwappedTwice ==
    /\ lastOp = "swapLayerOrder"
    /\ Len(orderTrail) = 2
    /\ orderTrail[1] = <<2, 1>>

\* C9: a swap leaves the layers (active flag, visibility, transform), the
\* canvases and the two stacks as they are
SwapFrame ==
    [][lastOp' = "swapLayerOrder"
        => UNCHANGED <<layers, editableImages, undoHistory, redoHistory>>]_vars

\* a swap made with layer 2 active and an edit on the undo stack
SwappedAfterEdit ==
    /\ lastOp = "swapLayerOrder"
    /\ layers[2].active
    /\ undoHistory # <<>>
    /\ editableImages[2] # undoHistory[1].imageData

\* C10: the pointer-down of a brush stroke pushes exactly one entry, which holds
\* the active layer's canvas as it was before the dab; a pointer-move pushes
\* nothing, and neither does the pointer-up that ends the stroke
OneSnapshotPerStroke ==
    [][/\ (/\ lastOp' = "mouseDown"
           /\ currentTool = "edit" /\ editSubTool = "brush"
           /\ HasCanvas(activeLayerId)) =>
            /\ undoHistory' # <<>>
            /\ undoHistory'[Len(undoHistory')] =
                    [layerId |-> activeLayerId, imageData |-> editableImages[activeLayerId]]
            /\ SubSeq(undoHistory', 1, Len(undoHistory') - 1) =
                    IF Len(undoHistory) < 10 THEN undoHistory ELSE Tail(undoHistory)
       /\ lastOp' = "mouseMove" => undoHistory' = undoHistory
       /\ (lastOp' \in {"mouseUp", "mouseLeave"} /\ editSubTool = "brush")
            => undoHistory' = undoHistory]_vars

\* a stroke of one dab at pointer-down and a second dab at a pointer-move, with
\* the single entry holding the canvas as loaded
StrokeOfTwoDabs ==
    /\ lastOp = "mouseMove"
    /\ isErasing
    /\ editSubTool = "brush"
    /\ Len(undoHistory) = 1
    /\ \E c \in LoadedCanvases : undoHistory[1] = [layerId |-> 1, imageData |-> c]
    /\ editableImages[1] = {}

\* C11: a pointer-up (or pointer-leave) of the box tool with both corners set
\* pushes one entry holding the active layer's canvas as it was, erases from
\* that canvas the pixels of the rectangle between the two corners, whichever
\* of them is the anchor, leaves the other canvas alone and clears both corners
BoxCommit ==
    [][(/\ lastOp' \in {"mouseUp", "mouseLeave"}
        /\ currentTool = "edit" /\ editSubTool = "box"
        /\ boxStart # Null /\ boxEnd # Null
        /\ HasCanvas(activeLayerId)) =>
          LET a == activeLayerId
              Between(v, p, q) == (p <= v /\ v < q) \/ (q <= v /\ v < p)
              InBox(cell) ==
                  /\ Between(Centre2(cell[1]), 2 * boxStart[1], 2 * boxEnd[1])
                  /\ Between(Centre2(cell[2]), 2 * boxStart[2], 2 * boxEnd[2])
          IN  /\ undoHistory' # <<>>
              /\ undoHistory'[Len(undoHistory')] =
                      [layerId |-> a, imageData |-> editableImages[a]]
              /\ SubSeq(undoHistory', 1, Len(undoHistory') - 1) =
                      IF Len(undoHistory) < 10 THEN undoHistory ELSE Tail(undoHistory)
              /\ editableImages' = [editableImages EXCEPT
                      ![a] = {cell \in editableImages[a] : ~ InBox(cell)}]
              /\ boxStart' = Null /\ boxEnd' = Null
              /\ boxPosRef' = [start |-> Null, end |-> Null]]_vars

\* a box committed on layer 2 that erased the first cell and nothing else
BoxErased ==
    /\ lastOp = "mouseUp"
    /\ activeLayerId = 2
    /\ boxStart = Null /\ boxEnd = Null
    /\ \E c \in LoadedCanvases :
          /\ undoHistory = <<[layerId |-> 2, imageData |-> c]>>
          /\ editableImages[2] = c \ {<<0, 0>>}
          /\ editableImages[1] = c

\* C12: a box commit whose corners agree in x or in y changes no canvas, pushes
\* one entry and empties the redo stack
DegenerateBox ==
    [][(/\ lastOp' \in {"mouseUp", "mouseLeave"}
        /\ currentTool = "edit" /\ editSubTool = "box"
        /\ boxStart # Null /\ boxEnd # Null
        /\ HasCanvas(activeLayerId)
        /\ (boxStart[1] = boxEnd[1] \/ boxStart[2] = boxEnd[2])) =>
          /\ editableImages' = editableImages
          /\ undoHistory' # <<>>
          /\ SubSeq(undoHistory', 1, Len(undoHistory') - 1) =
                  IF Len(undoHistory) < 10 THEN undoHistory ELSE Tail(undoHistory)
          /\ redoHistory' = <<>>]_vars

\* a box committed on the canvas as loaded that erased nothing
EmptyBoxCommitted ==
    /\ lastOp = "mouseUp"
    /\ message = Msg("success", "Box erased")
    /\ \E c \in LoadedCanvases :
          /\ undoHistory = <<[layerId |-> 1, imageData |-> c]>>
          /\ editableImages = [l \in LayerIds |-> c]

\* C13: a click of the line tool at the point of the click before it, with the
\* detected segments, the active layer's transform and the selection as that
\* click left them, puts the selection back to what it was before that click
ToggleTwice ==
    [][(/\ lastOp' = "mouseDown"
        /\ currentTool = "edit" /\ editSubTool = "line"
        /\ clickTrail.mode = "click"
        /\ clickTrail'.p = clickTrail.p
        /\ detectedLines = clickTrail.lines
        /\ layers[activeLayerId].transform = clickTrail.t
        /\ selectedLines = clickTrail.after)
        => selectedLines' = clickTrail.before]_vars

\* two clicks at the same point, the second deselecting the segment
ClickedTwice ==
    /\ lastOp = "mouseDown"
    /\ clickTrail.mode = "click"
    /\ clickTrail.prev = clickTrail.p
    /\ clickTrail.before # {}
    /\ clickTrail.after = {}
    /\ selectedLines = {}
    /\ detectedLines # <<>>

\* C14: when some detected segment is nearer than the threshold to the click, as
\* the line tool converts it, the click toggles one index and leaves the others:
\* the index of a segment that is within the threshold and no farther from the
\* click than any other detected segment
NearestToggled ==
    [][(/\ lastOp' = "mouseDown"
        /\ currentTool = "edit" /\ editSubTool = "line"
        /\ clickTrail'.mode = "click") =>
          LET q == ImagePoint(clickTrail'.p, layers[activeLayerId].transform)
              d(i) == PointToSegmentDistance2(q[1], q[2], detectedLines[i])
              idxs == 1..Len(detectedLines)
          IN  (\E i \in idxs : d(i) < 15 * 15) =>
                \E i \in idxs :
                    /\ d(i) < 15 * 15
                    /\ \A j \in idxs : d(i) <= d(j)
                    /\ selectedLines' = (selectedLines \ {i}) \cup ({i} \ selectedLines)]_vars

\* a click on the fourth segment with the third already selected, the third
\* being within the threshold of the click as well
NearestOfSeveral ==
    /\ lastOp = "mouseDown"
    /\ clickTrail.mode = "click"
    /\ clickTrail.p = <<50, 30>>
    /\ clickTrail.t = IdentityTransform
    /\ clickTrail.before = {3}
    /\ selectedLines = {3, 4}
    /\ Len(detectedLines) >= 4

\* C15: a click of the line tool with no detected segment nearer than the
\* threshold changes neither the selection, nor a canvas, nor a stack
MissIsNoOp ==
    [][(/\ lastOp' = "mouseDown"
        /\ currentTool = "edit" /\ editSubTool = "line"
        /\ clickTrail'.mode = "click"
        /\ LET q == ImagePoint(clickTrail'.p, layers[activeLayerId].transform)
           IN  \A i \in 1..Len(detectedLines) :
                  PointToSegmentDistance2(q[1], q[2], detectedLines[i]) >= 15 * 15)
        => UNCHANGED <<selectedLines, editableImages, undoHistory, redoHistory>>]_vars

\* a click beyond the end of the detected segments, with a segment selected
ClickedBeyond ==
    /\ lastOp = "mouseDown"
    /\ clickTrail.mode = "click"
    /\ clickTrail.p = <<110, 20>>
    /\ clickTrail.t = IdentityTransform
    /\ clickTrail.lines # <<>>
    /\ clickTrail.before # {}

\* C16: an erase of a non-empty selection pushes one entry holding the active
\* layer's canvas as it was, erases from that canvas the pixels under the
\* strokes of the selected segments and no others, leaves the other canvas
\* alone and empties the selection
EraseSelectedOnce ==
    [][(/\ lastOp' = "eraseSelectedLines"
        /\ selectedLines # {}
        /\ HasCanvas(activeLayerId)) =>
          LET a == activeLayerId
              Under(cell, line) ==
                  /\ 2 * line.x1 <= Centre2(cell[1]) /\ Centre2(cell[1]) <= 2 * line.x2
                  /\ Centre2(cell[2]) - 2 * line.y1 <= 5
                  /\ 2 * line.y1 - Centre2(cell[2]) <= 5
              Struck(cell) ==
                  \E i \in selectedLines \cap DOMAIN detectedLines :
                      Under(cell, detectedLines[i])
          IN  /\ undoHistory' # <<>>
              /\ undoHistory'[Len(undoHistory')] =
                      [layerId |-> a, imageData |-> editableImages[a]]
              /\ SubSeq(undoHistory', 1, Len(undoHistory') - 1) =
                      IF Len(undoHistory) < 10 THEN undoHistory ELSE Tail(undoHistory)
              /\ editableImages' = [editableImages EXCEPT
                      ![a] = {cell \in editableImages[a] : ~ Struck(cell)}]
              /\ selectedLines' = {}]_vars

\* the selected segment erased from layer 2, four segments being detected
SelectedErased ==
    /\ lastOp = "eraseSelectedLines"
    /\ activeLayerId = 2
    /\ selectedLines = {}
    /\ Len(detectedLines) >= 4
    /\ Len(undoHistory) = 1
    /\ undoHistory[1].layerId = 2
    /\ undoHistory[1].imageData # {}
    /\ editableImages[2] = {}
    /\ editableImages[1] # {}

\* C17: a change of sub-tool away from the box tool leaves both corners of the
\* box unset, and one away from the line tool leaves the selection empty
SubToolLeftClean ==
    [][lastOp' = "setEditSubTool" =>
          /\ (editSubTool = "box" /\ editSubTool' # "box")
                => (boxStart' = Null /\ boxEnd' = Null)
          /\ (editSubTool = "line" /\ editSubTool' # "line")
                => selectedLines' = {}]_vars

\* C18: a change of tool or of sub-tool changes no canvas and neither stack
ToolChangeFrame ==
    [][lastOp' \in {"setCurrentTool", "setEditSubTool"}
        => UNCHANGED <<editableImages, undoHistory, redoHistory>>]_vars

\* the overlay tool chosen in the middle of a brush stroke
ToolChangedMidStroke ==
    /\ lastOp = "setCurrentTool"
    /\ currentTool = "overlay"
    /\ isErasing
    /\ undoHistory # <<>>
    /\ editableImages[1] # undoHistory[1].imageData

\* C19: for every transform with a positive scale and every point, converting
\* image -> display -> image and display -> image -> display gives the point back
RoundTrip ==
    \A l \in LayerIds : \A p \in ProbePoints :
        LET t == layers[l].transform
        IN  t.scale > 0 =>
                /\ ImagePointR(CanvasPointR(p, t), t) = p
                /\ CanvasPointR(ImagePointR(p, t), t) = p
BoxPreviewedMoved ==
    LET t == layers[activeLayerId].transform
    IN  /\ currentTool = "edit" /\ editSubTool = "box"
        /\ boxStart # Null /\ boxEnd # Null
        /\ lastOp = "mouseDown"
        /\ t.scale = 30 /\ t.x = 7
        /\ CanvasPointR(<<Rat(7, 3), Rat(-5, 2)>>, t)[1] = Rat(77, 10)
        /\ ImagePointR(<<Whole(100), Whole(100)>>, t)[1] = Whole(310)

\* C20: the edit tools convert the display position at which the compositor
\* draws pixel q of the active layer back to q
PointerHitsDrawnPixel ==
    images # {} =>
        \A q \in ProbePoints :
            LET t == layers[activeLayerId].transform
            IN  ImagePointR(DrawnAt(q, t), t) = q

\* C21: a pointer-move of an overlay drag leaves every transform as it is and
\* writes the one pending delta; at most one transform callback is outstanding;
\* the callback adds the pending delta to the x and y of the active layer,
\* changes no other layer and empties the slot
DragThrottled ==
    [][/\ render'.frames <= 1
       /\ ((lastOp' = "mouseMove" /\ DragMove) =>
              (/\ layers' = layers
               /\ pendingTransformRef' =
                      <<(dragStart'[1] - dragStart[1]) * MOVEMENT_MULTIPLIER,
                        (dragStart'[2] - dragStart[2]) * MOVEMENT_MULTIPLIER>>))
       /\ ((lastOp' = "transformFrame" /\ pendingTransformRef # Null) =>
              (/\ layers' = [layers EXCEPT ![activeLayerId].transform =
                               [@ EXCEPT !.x = @ + pendingTransformRef[1],
                                         !.y = @ + pendingTransformRef[2]]]
               /\ pendingTransformRef' = Null))]_vars

\* C22: every render pass runs in the animation-frame callback of the render
\* effect, never inside a handler; at most one render request is outstanding;
\* at most one pass is drawn between the start of one frame and the next
RenderCoalesced ==
    /\ ~ render.sync
    /\ render.queue <= 1
    /\ render.since <= 1

\* C23: a render pass clears the surface first and once, then draws the visible
\* layers in layerOrder, then the tool overlays; no layer follows an overlay
DrawOrder ==
    render.ops # <<>> =>
        LET ops == render.ops
            Visible(l) == layers[l].visible
            IsLayer(o) == o.op = "layer"
            drawn == SelectSeq(ops, IsLayer)
        IN  /\ ops[1].op = "clear"
            /\ \A i \in 2..Len(ops) : ops[i].op # "clear"
            /\ [i \in 1..Len(drawn) |-> drawn[i].arg] = SelectSeq(layerOrder, Visible)
            /\ \A i, j \in 1..Len(ops) :
                  (i < j /\ ops[i].op \in {"box", "ring", "lines"}) => ops[j].op # "layer"
SwappedLayersUnderRing ==
    /\ lastOp = "renderFrame"
    /\ layerOrder = <<2, 1>>
    /\ render.ops = <<DrawOp("clear", 0), DrawOp("layer", 2), DrawOp("layer", 1),
                      DrawOp("ring", 0)>>

\* C24: each layer has been recoloured once if the images have loaded and not
\* at all otherwise, whatever renders, edits, undos and tool changes followed,
\* and only the load changes the count
RecolorOncePerLoad ==
    /\ [](\A l \in LayerIds : render.recolors[l] = IF images = LayerIds THEN 1 ELSE 0)
    /\ [][render'.recolors # render.recolors => lastOp' = "loadImages"]_vars
UndoneAndDrawnAfterLoad ==
    /\ lastOp = "undo"
    /\ redoHistory # <<>>
    /\ render.sync
    /\ render.since >= 2
    /\ render.recolors = [l \in LayerIds |-> 1]

\* C25: a pointer handler of the edit tool (brush dab or move, box commit) and
\* an erase of the selected segments change no canvas but that of the active
\* layer, no source image and no transform
EditsActiveOnly ==
    [][(\/ lastOp' \in {"mouseDown", "mouseMove", "mouseUp", "mouseLeave"}
           /\ currentTool = "edit"
        \/ lastOp' = "eraseSelectedLines") =>
          /\ DOMAIN editableImages' = DOMAIN editableImages
          /\ \A l \in DOMAIN editableImages :
                l # activeLayerId => editableImages'[l] = editableImages[l]
          /\ images' = images
          /\ \A l \in LayerIds : layers'[l].transform = layers[l].transform]_vars
SecondLayerStrokeErased ==
    /\ lastOp = "eraseSelectedLines"
    /\ activeLayerId = 2
    /\ selectedLines = {}
    /\ undoHistory # <<>>
    /\ editableImages[2] # undoHistory[Len(undoHistory)].imageData
    /\ editableImages[1] = undoHistory[Len(undoHistory)].imageData

\* a stack after a step: as it was, without its last entry, emptied, or with
\* one entry pushed and the oldest evicted; the entries that stay are unchanged
KeptOrPushed(h, g) ==
    \/ g = h
    \/ g = DropLast(h)
    \/ g = <<>>
    \/ g # <<>> /\ g = SliceLast(Append(h, g[Len(g)]), MAX_UNDO_HISTORY)

\* C26: no step changes the content of an entry that stays on the undo or the
\* redo stack, whatever is drawn on or restored into the live canvases
SnapshotsKept ==
    [][/\ KeptOrPushed(undoHistory, undoHistory')
       /\ KeptOrPushed(redoHistory, redoHistory')]_vars
RestoredBesideSnapshots ==
    /\ lastOp = "undo"
    /\ Len(undoHistory) = 1
    /\ Len(redoHistory) = 1
    /\ undoHistory[1].layerId = redoHistory[1].layerId
    /\ undoHistory[1].imageData # redoHistory[1].imageData
    /\ editableImages[undoHistory[1].layerId] # undoHistory[1].imageData
    /\ editableImages[undoHistory[1].layerId] # redoHistory[1].imageData

\* C27: every selected index is an index of the list of detected segments
SelectionWithinDetected == selectedLines \subseteq DOMAIN detectedLines

\* C28: the detected segments are those of the active layer: whenever there
\* are any, and whenever one is toggled or the selected ones are erased, the
\* layer they were detected on is the active one
SegmentsOfActiveLayer ==
    [][/\ detectedLines' # <<>> => clickTrail'.on = <<activeLayerId'>>
       /\ ((lastOp' = "mouseDown" /\ selectedLines' # selectedLines)
            \/ (lastOp' = "eraseSelectedLines" /\ selectedLines # {}))
           => clickTrail.on = <<activeLayerId>>]_vars

\* a brush or box pointer handler, an erase of the selected segments, an undo
\* or a redo, run while the active layer has no canvas
ToolWithoutBuffer ==
    /\ ~ HasCanvas(activeLayerId)
    /\ \/ /\ lastOp' \in {"mouseDown", "mouseMove", "mouseUp", "mouseLeave"}
          /\ currentTool = "edit"
          /\ editSubTool \in {"brush", "box"}
       \/ lastOp' \in {"eraseSelectedLines", "undo", "redo"}

ErrorEntered == message' # message /\ message'.type = "error"

LoadFailureIsFatal ==
    /\ [](/\ images \in {{}, LayerIds}
          /\ images # LayerIds => (~ render.drew /\ render.ops = <<>> /\ render.queue = 0))
    /\ [][lastOp' = "loadImagesFailed" =>
             (images' = {} /\ ~ loading' /\ message'.type = "error")]_vars
MovedAfterFailedLoad ==
    /\ lastOp = "mouseMove"
    /\ currentTool = "edit"
    /\ cursorPos # Null
    /\ ~ loading
    /\ images = {}
    /\ ~ render.drew

----------------------------------------------------------------------------
(* The opacity and scale sliders.  An <input type="range"> holds its value *)
(* between its min and max attributes: raw is the value the user moves the *)
(* thumb towards, the handler receives the value the input holds.          *)

MaxSliderSteps == 6

SliderMin(key) ==
    CASE key = "x" -> -500 [] key = "y" -> -500 [] key = "rotation" -> -180
      [] key = "opacity" -> 0 [] key = "scale" -> 10

SliderMax(key) ==
    CASE key = "x" -> 500 [] key = "y" -> 500 [] key = "rotation" -> 180
      [] key = "opacity" -> 100 [] key = "scale" -> 200

\* an input that passes on any value
Unclamped(key, raw) == raw

\* e.target.value of the range input of key
Clamped(key, raw) == Max(SliderMin(key), Min(SliderMax(key), raw))

\* positions the thumbs are moved towards, beyond both ends included
RawValues(key) ==
    CASE key = "opacity" -> {-10, 130}
      [] key = "scale"   -> {0, 60, 250}

InitSlider ==
    /\ InitState
    /\ budget = <<MaxSliderSteps>>
    /\ law = NoLaw
    /\ clickTrail = NoClick("off")
    /\ render = RenderOff
    /\ gesture = GestureOff

\* the two sliders, the reset, the swap, the overlay drag, the brush, undo
\* and redo
NextSlider ==
    \/ \E c \in LoadedCanvases : LoadImagesSuccess(c, c)
    \/ SetActiveLayer(2)
    \/ \E key \in {"opacity", "scale"} :
          \E raw \in RawValues(key) : UpdateTransform(key, Clamped(key, raw))
    \/ ResetTransform
    \/ SwapLayerOrder
    \/ SwapTimeout
    \/ \E t \in Tools : SetCurrentTool(t)
    \/ \E p \in Points : HandleMouseDown(p)
    \/ \E p \in Points : HandleMouseMove(p)
    \/ TransformFrame
    \/ HandleMouseUp
    \/ Undo
    \/ Redo

SpecSlider == InitSlider /\ [][NextSlider]_vars

\* C31: both layers always have scale > 0 and opacity from 0 to 100 percent
\* (0 to 1 in the code's unit), so the display-to-image conversion never
\* divides by zero
ScaleAndOpacityInRange ==
    \A l \in LayerIds :
        /\ layers[l].transform.scale > 0
        /\ layers[l].transform.scale \in SliderMin("scale")..SliderMax("scale")
        /\ layers[l].transform.opacity \in 0..100
BrushedAtSmallestScale ==
    /\ lastOp = "mouseDown"
    /\ currentTool = "edit"
    /\ isErasing
    /\ layers[activeLayerId].transform.scale = SliderMin("scale")
    /\ HasCanvas(activeLayerId)
    /\ undoHistory # <<>>

----------------------------------------------------------------------------
\* C32: a step of setActiveLayer that selects the other layer leaves the undo
\* stack empty
HistoryClearedOnSwitch ==
    [][(lastOp' = "setActiveLayer" /\ activeLayerId' # activeLayerId)
          => undoHistory' = <<>>]_vars

----------------------------------------------------------------------------
\* the step is a brush dab: a pointer-down of the brush, or a pointer-move of
\* the brush while erasing, on an active layer that has a canvas
BrushDab ==
    /\ currentTool = "edit"
    /\ editSubTool = "brush"
    /\ HasCanvas(activeLayerId)
    /\ \/ lastOp' = "mouseDown"
       \/ lastOp' = "mouseMove" /\ isErasing

\* the centre of the cell lies in the closed disc of radius r around c
InDisc(cell, c, r) ==
    LET dx2 == Centre2(cell[1]) - 2 * c[1]
        dy2 == Centre2(cell[2]) - 2 * c[2]
    IN  dx2 * dx2 + dy2 * dy2 <= 4 * r * r

\* C33: a brush dab at image point c with image radius r clears the cells of
\* the active layer's canvas that lie in the disc (c, r), keeps its other
\* cells as they were (opaque or clear), and changes no cell of the other layer
BrushErasesDisc ==
    [][BrushDab =>
          \E p \in Points :
             LET l == activeLayerId
                 t == layers[l].transform
                 c == ImagePoint(p, t)
                 r == (brushSize * 100) \div t.scale
             IN  /\ lastOp' = "mouseMove" => p = cursorPos'
                 /\ \A cell \in Cells :
                       cell \in editableImages'[l]
                          <=> (cell \in editableImages[l] /\ ~ InDisc(cell, c, r))
                 /\ \A o \in LayerIds \ {l} : editableImages'[o] = editableImages[o]]_vars
DabbedOverOneCell ==
    /\ lastOp = "mouseDown"
    /\ isErasing
    /\ activeLayerId = 2
    /\ layers[2].transform.scale = 60
    /\ HasCanvas(2)
    /\ editableImages[2] = editableImages[1] \ {<<0, 0>>}
    /\ editableImages[2] # {}
    /\ undoHistory # <<>>

----------------------------------------------------------------------------
(* Pointer gestures: overlay drags, brush strokes and box drags, with the  *)
(* tool and sub-tool controls used between and during them.                *)

MaxGestureSteps == 9

InitGesture ==
    /\ InitState
    /\ budget = <<MaxGestureSteps>>
    /\ law = NoLaw
    /\ clickTrail = NoClick("off")
    /\ render = RenderOff
    /\ gesture = GestureOn

NextGesture ==
    \/ \E c \in LoadedCanvases : LoadImagesSuccess(c, c)
    \/ SetActiveLayer(2)
    \/ \E t \in Tools : SetCurrentTool(t)
    \/ \E s \in {"brush", "box"} : SetEditSubTool(s)
    \/ \E p \in Points : HandleMouseDown(p)
    \/ \E p \in Points : HandleMouseMove(p)
    \/ TransformFrame
    \/ HandleMouseUp
    \/ HandleMouseLeave

SpecGesture == InitGesture /\ [][NextGesture]_vars

\* C34: a pointer-up or pointer-leave leaves both flags false, the pending
\* delta empty and no transform frame outstanding; from then to the next
\* pointer-down no pointer event and no frame changes a transform or a canvas
ReleaseEndsGesture ==
    [][/\ lastOp' \in {"mouseUp", "mouseLeave"} =>
             (/\ ~ isDragging' /\ ~ isErasing'
              /\ pendingTransformRef' = Null /\ animationFrameRef' = Null)
       /\ (/\ gesture.phase = "released"
           /\ lastOp' \in {"mouseMove", "mouseUp", "mouseLeave", "transformFrame"}) =>
             (/\ \A l \in LayerIds : layers'[l].transform = layers[l].transform
              /\ editableImages' = editableImages)]_vars

----------------------------------------------------------------------------
\* C35: while a box is anchored, no step but a pointer-down, pointer-up or
\* pointer-leave changes the stored anchor; a pointer-move changes the second
\* corner only, and any other step (a change of the transform among them)
\* changes neither corner
AnchorFixed ==
    [][(boxStart # Null /\ lastOp' \notin {"mouseDown", "mouseUp", "mouseLeave"}) =>
          (/\ boxStart' = boxStart
           /\ boxPosRef'.start = boxPosRef.start
           /\ lastOp' # "mouseMove" => (boxEnd' = boxEnd /\ boxPosRef'.end = boxPosRef.end))]_vars
BoxDraggedAcrossRescale ==
    /\ lastOp = "mouseMove"
    /\ currentTool = "edit"
    /\ editSubTool = "box"
    /\ layers[activeLayerId].transform.scale = 50
    /\ boxStart = <<10, 20>>
    /\ boxPosRef = [start |-> <<10, 20>>, end |-> <<100, 60>>]
    /\ boxEnd = <<100, 60>>

----------------------------------------------------------------------------
\* C36: the two stacks never hold more than MAX_UNDO_HISTORY entries between
\* them, and an undo or a redo that moves an entry puts it on top of the other
\* stack without dropping that stack's oldest entry
CombinedHistoryBounded ==
    /\ [](Len(undoHistory) + Len(redoHistory) <= MAX_UNDO_HISTORY)
    /\ [][/\ (lastOp' = "undo" /\ CanUndo(HistoryState)) =>
                (/\ undoHistory' = DropLast(undoHistory)
                 /\ Len(redoHistory') = Len(redoHistory) + 1
                 /\ SubSeq(redoHistory', 1, Len(redoHistory)) = redoHistory)
          /\ (lastOp' = "redo" /\ CanRedo(HistoryState)) =>
                (/\ redoHistory' = DropLast(redoHistory)
                 /\ Len(undoHistory') = Len(undoHistory) + 1
                 /\ SubSeq(undoHistory', 1, Len(undoHistory)) = undoHistory)]_vars
FullHistorySplit ==
    /\ lastOp = "redo"
    /\ Len(undoHistory) = 4
    /\ Len(redoHistory) = 6
    /\ \E i \in 1..4 : undoHistory[i].layerId = 2

----------------------------------------------------------------------------
\* C37: in every state an effective undo followed at once by a redo, and an
\* effective redo followed at once by an undo, give back the canvases and both
\* stacks
UndoRedoCancel ==
    /\ CanUndo(HistoryState) => RedoOf(UndoOf(HistoryState)) = HistoryState
    /\ CanRedo(HistoryState) => UndoOf(RedoOf(HistoryState)) = HistoryState
UndoneThenRedone ==
    /\ lastOp = "redo"
    /\ law.phase = "redos"
    /\ Len(undoHistory) = 1
    /\ redoHistory = <<>>
    /\ editableImages = law.post
    /\ law.post # law.base

----------------------------------------------------------------------------
\* C38: once an overlay drag has ended, the layer that was dragged has moved
\* from where it was at the pointer-down by MOVEMENT_MULTIPLIER times the way
\* of the pointer from the pointer-down to its last pointer-move
NoMotionLost ==
    (/\ lastOp \in {"mouseUp", "mouseLeave"}
     /\ gesture.phase = "released"
     /\ gesture.tool = "overlay"
     /\ gesture.l0 = activeLayerId
     /\ currentTool = "overlay") =>
        LET t == layers[gesture.l0].transform
        IN  /\ t.x = gesture.t0[1] + MOVEMENT_MULTIPLIER * (gesture.last[1] - gesture.from[1])
            /\ t.y = gesture.t0[2] + MOVEMENT_MULTIPLIER * (gesture.last[2] - gesture.from[2])

----------------------------------------------------------------------------
\* C39: when the pointer-up or pointer-leave that completes a gesture leaves
\* the canvases different from what they were at its pointer-down, one undo
\* gives back the canvases of the pointer-down
GestureUndoable ==
    [][(/\ gesture.phase = "down"
        /\ lastOp' \in {"mouseUp", "mouseLeave"}
        /\ gesture.imgs0 # <<>>
        /\ editableImages' # gesture.imgs0) =>
          UndoOf([imgs |-> editableImages', undo |-> undoHistory',
                  redo |-> redoHistory']).imgs = gesture.imgs0]_vars

----------------------------------------------------------------------------
\* a box drag that a pointer-up would commit
BoxInProgress ==
    currentTool = "edit" /\ editSubTool = "box" /\ boxStart # Null /\ boxEnd # Null

\* C40: a pointer-leave ends a brush stroke and an overlay drag as a pointer-up
\* does, and commits a box drag in progress: one undo entry pushed for the
\* active layer, the redo stack emptied, the rectangle erased from that
\* layer's canvas, the box cleared; without a box in progress it changes no
\* canvas and neither stack
LeaveActsAsUp ==
    [][lastOp' = "mouseLeave" =>
          /\ ~ isDragging' /\ ~ isErasing' /\ dragStart' = Null
          /\ pendingTransformRef' = Null /\ animationFrameRef' = Null
          /\ IF BoxInProgress /\ HasCanvas(activeLayerId)
             THEN /\ undoHistory' =
                        PushBounded(undoHistory,
                                    Entry(activeLayerId, editableImages[activeLayerId]))
                  /\ redoHistory' = <<>>
                  /\ editableImages' =
                        [editableImages EXCEPT ![activeLayerId] =
                            EraseRect(editableImages[activeLayerId],
                                      Min(boxStart[1], boxEnd[1]), Min(boxStart[2], boxEnd[2]),
                                      Abs(boxEnd[1] - boxStart[1]), Abs(boxEnd[2] - boxStart[2]))]
                  /\ boxStart' = Null /\ boxEnd' = Null
                  /\ boxPosRef' = [start |-> Null, end |-> Null]
             ELSE /\ UNCHANGED <<editableImages, undoHistory, redoHistory>>
                  /\ BoxInProgress => (boxStart' = Null /\ boxEnd' = Null)
                  /\ ~ BoxInProgress => UNCHANGED <<boxStart, boxEnd, boxPosRef>>]_vars
BoxCommittedByLeave ==
    /\ lastOp = "mouseLeave"
    /\ message = Msg("success", "Box erased")
    /\ cursorPos = Null
    /\ boxStart = Null
    /\ Len(undoHistory) = 1
    /\ HasCanvas(2)
    /\ undoHistory[1].layerId = 2
    /\ editableImages[2] # undoHistory[1].imageData
    /\ editableImages[1] = undoHistory[1].imageData

====
